---- MODULE Spec2Model ----
(***************************************************************************)
(* Model of db/dataset_eval.py: the evaluation job queue kept in the       *)
(* table dataset_eval_jobs.                                                *)
(*                                                                         *)
(* Three specifications share the same table and the same pure operators:  *)
(*   Spec     every public function runs to completion, one call after     *)
(*            another (a single caller);                                   *)
(*   SpecC    several callers; evaluate_dataset is split at its SQL        *)
(*            statements, every other function is one statement;           *)
(*   SpecL    one submitter and one worker that is scheduled fairly, run   *)
(*            until every job has been worked on.                          *)
(***************************************************************************)
EXTENDS Integers, Sequences, FiniteSets, TLC

\* ---------------------------------------------------------------- bounds
MaxJobs == 3          \* rows the table may hold
MaxTime == 4          \* horizon of Spec and SpecC: the last clock value at
                      \* which a write may start

\* ------------------------------------------------------------- constants
NULL == "NULL"        \* SQL NULL / Python None

STATUS_PENDING == "pending"
STATUS_RUNNING == "running"
STATUS_DONE == "done"
STATUS_FAILED == "failed"

\* the list tested by set_job_status
Statuses == {STATUS_PENDING, STATUS_RUNNING, STATUS_DONE, STATUS_FAILED}

\* the tuple passed to the count query of evaluate_dataset
ActiveStatuses == {STATUS_PENDING, STATUS_RUNNING}

\* ---------------------------------------------------------------- inputs
JobId(i) == "j" \o ToString(i)
JobIds == {JobId(i) : i \in 1..MaxJobs}
StatusInputs == Statuses \cup {"bogus"}
MsgInputs == {NULL, "m"}
ResultInputs == {"r1", "r2"}

\* The external collaborators (dataset store, schema validator, low-level
\* lookup) as data; DatasetStore is the content of the dataset store at the
\* start: dA and dB are complete, dC does not match the
\* schema, dD references a recording without low-level data.  dA names the
\* same recording twice, so the memo branch of validate_dataset is reached.
DatasetIds == {"dA", "dB", "dC", "dD"}

DatasetStore ==
    [ dA |-> [schema_ok |-> TRUE,  classes |-> << <<"r1", "r2">>, <<"r1">> >>],
      dB |-> [schema_ok |-> TRUE,  classes |-> << <<"r2">>, <<"r3">> >>],
      dC |-> [schema_ok |-> FALSE, classes |-> << <<"r1">>, <<"r2">> >>],
      dD |-> [schema_ok |-> TRUE,  classes |-> << <<"r1">>, <<"r4", "r2">> >>] ]

LowlevelCount == [ r1 |-> 2, r2 |-> 1, r3 |-> 1, r4 |-> 0 ]

count_lowlevel(recording_mbid) == LowlevelCount[recording_mbid]

\* ----------------------------------------------------------------- state
VARIABLES
    jobs,     \* the committed rows of dataset_eval_jobs (a set of records)
    now,      \* the database clock
    ret,      \* the last completed call: what was called and what came back
    again,    \* the last call repeated the call before it (same arguments)
    store,    \* what db.dataset.get returns for every dataset id, at present
    horizon,  \* the last clock value at which a write may start (never changes)
    pc,       \* SpecC: position of every caller inside evaluate_dataset
    local     \* SpecC: the locals of every caller's open call

vars == <<jobs, now, ret, again, store, horizon, pc, local>>

Procs == {"p1", "p2"}

NoExc == "none"

\* ------------------------------------------------------ validate_dataset
\* the recordings in the order the two nested loops visit them
RECURSIVE Recordings(_)
Recordings(classes) ==
    IF classes = <<>> THEN <<>>
    ELSE Head(classes) \o Recordings(Tail(classes))

\* The loop body.  The test on rec_memo ends in `pass`, so a memoized
\* recording is looked up again like any other; the first recording whose
\* count is not positive is returned, NULL when the loops run to their end.
RECURSIVE CheckRecordings(_, _)
CheckRecordings(recs, rec_memo) ==
    IF recs = <<>> THEN NULL
    ELSE LET recording_mbid == Head(recs) IN
         IF count_lowlevel(recording_mbid) > 0
         THEN CheckRecordings(Tail(recs), rec_memo \cup {recording_mbid})
         ELSE recording_mbid

\* validate_dataset without the loops over the recordings
validate_dataset_SchemaOnly(dataset) ==
    IF ~dataset.schema_ok
    THEN [exc |-> "ValidationError", recording |-> NULL]
    ELSE [exc |-> NoExc, recording |-> NULL]

validate_dataset(dataset) ==
    IF ~dataset.schema_ok
    THEN [exc |-> "ValidationError", recording |-> NULL]
    ELSE LET bad == CheckRecordings(Recordings(dataset.classes), {}) IN
         IF bad # NULL
         THEN [exc |-> "Exception", recording |-> bad]
         ELSE [exc |-> NoExc, recording |-> NULL]

\* -------------------------------------------------------- SQL statements
\* the count query without the condition on status
CountActive_AnyStatus(rows, dataset_id) ==
    Cardinality({j \in rows : j.dataset_id = dataset_id})

\* the count query with only STATUS_RUNNING in its tuple
CountActive_RunningOnly(rows, dataset_id) ==
    Cardinality({j \in rows : j.dataset_id = dataset_id /\ j.status = STATUS_RUNNING})

\* SELECT count(*) ... WHERE dataset_id = %s AND status IN %s
CountActive(rows, dataset_id) ==
    Cardinality({j \in rows : j.dataset_id = dataset_id /\ j.status \in ActiveStatuses})

\* the columns the INSERT does not name take the defaults of the table
ColumnDefaults(t) ==
    [status_msg |-> NULL, result |-> NULL, created |-> t, updated |-> t]

\* INSERT INTO dataset_eval_jobs (id, dataset_id, status) VALUES (...)
NewRow(id, dataset_id, t) ==
    [id |-> id, dataset_id |-> dataset_id, status |-> STATUS_PENDING,
     status_msg |-> ColumnDefaults(t).status_msg,
     result |-> ColumnDefaults(t).result,
     created |-> ColumnDefaults(t).created,
     updated |-> ColumnDefaults(t).updated]

\* a generator that hands out the same identifier every time
uuid_generate_v4_Constant(used) == JobId(1)

\* uuid_generate_v4(): an identifier that no row carries yet.  Identifiers
\* are opaque, so the first unused name stands for the generated one.
uuid_generate_v4(used) ==
    JobId(CHOOSE i \in 1..MaxJobs :
              /\ JobId(i) \notin used
              /\ \A k \in 1..(i - 1) : JobId(k) \in used)

\* the query with STATUS_RUNNING in place of STATUS_PENDING
NextPendingRows_Running(rows) ==
    {j \in rows : /\ j.status = STATUS_RUNNING
                  /\ \A k \in rows : k.status = STATUS_RUNNING => j.created <= k.created}

\* the query with ORDER BY created DESC
NextPendingRows_Newest(rows) ==
    {j \in rows : /\ j.status = STATUS_PENDING
                  /\ \A k \in rows : k.status = STATUS_PENDING => j.created >= k.created}

\* WHERE status = 'pending' ORDER BY created ASC LIMIT 1: the rows that may
\* come first (more than one when the smallest created is shared)
NextPendingRows(rows) ==
    {j \in rows : /\ j.status = STATUS_PENDING
                  /\ \A k \in rows : k.status = STATUS_PENDING => j.created <= k.created}

\* WHERE id = %s
RowsWithId(rows, job_id) == {j \in rows : j.id = job_id}

\* ORDER BY created ASC: repeatedly take a row with the smallest created;
\* rows that share it may come in either order
RECURSIVE OrderByCreated(_)
OrderByCreated(S) ==
    IF S = {} THEN {<<>>}
    ELSE UNION {{<<m>> \o t : t \in OrderByCreated(S \ {m})}
                  : m \in {j \in S : \A k \in S : j.created <= k.created}}

\* the query without its ORDER BY clause: the rows come in any order
DatasetRows_Unordered(rows, dataset_id) ==
    LET S == {j \in rows : j.dataset_id = dataset_id} IN
    {s \in [1..Cardinality(S) -> S] : \A i, k \in 1..Cardinality(S) : i # k => s[i] # s[k]}

\* WHERE dataset_id = %s ORDER BY created ASC
DatasetRows(rows, dataset_id) ==
    OrderByCreated({j \in rows : j.dataset_id = dataset_id})

\* the statement with `created` in place of `updated`
UpdateResult_Created(rows, job_id, result, t) ==
    {IF j.id = job_id THEN [j EXCEPT !.result = result, !.created = t] ELSE j
        : j \in rows}

\* the statement inserts the row when no row has the id
UpdateResult_Upsert(rows, job_id, result, t) ==
    IF \E j \in rows : j.id = job_id
    THEN {IF j.id = job_id THEN [j EXCEPT !.result = result, !.updated = t] ELSE j
            : j \in rows}
    ELSE rows \cup {[NewRow(job_id, NULL, t) EXCEPT !.result = result]}

\* the statement marks the job done along with storing the result
UpdateResult_MarksDone(rows, job_id, result, t) ==
    {IF j.id = job_id
        THEN [j EXCEPT !.result = result, !.status = STATUS_DONE, !.updated = t]
        ELSE j
        : j \in rows}

\* the statement without the refresh of `updated`
UpdateResult_Stale(rows, job_id, result, t) ==
    {IF j.id = job_id THEN [j EXCEPT !.result = result] ELSE j : j \in rows}

\* UPDATE ... SET (result, updated) = (%s, current_timestamp) WHERE id = %s
UpdateResult(rows, job_id, result, t) ==
    {IF j.id = job_id THEN [j EXCEPT !.result = result, !.updated = t] ELSE j
        : j \in rows}

\* the statement writes status_msg only when a message is given
UpdateStatus_KeepMessage(rows, job_id, status, status_msg, t) ==
    {IF j.id = job_id
        THEN [j EXCEPT !.status = status,
                       !.status_msg = IF status_msg = NULL THEN @ ELSE status_msg,
                       !.updated = t]
        ELSE j
        : j \in rows}

\* the statement without the refresh of `updated`
UpdateStatus_Stale(rows, job_id, status, status_msg, t) ==
    {IF j.id = job_id
        THEN [j EXCEPT !.status = status, !.status_msg = status_msg]
        ELSE j
        : j \in rows}

\* UPDATE ... SET (status, status_msg, updated) = (%s, %s, current_timestamp)
UpdateStatus(rows, job_id, status, status_msg, t) ==
    {IF j.id = job_id
        THEN [j EXCEPT !.status = status, !.status_msg = status_msg, !.updated = t]
        ELSE j
        : j \in rows}

\* ------------------------------------------------------------------ Init
Call(op, arg, exc, val, rows) ==
    [op |-> op, arg |-> arg, exc |-> exc, val |-> val, rows |-> rows]

\* a call completes and becomes the last call
Returns(c) ==
    /\ ret' = c
    /\ again' = (c.op = ret.op /\ c.arg = ret.arg)

Idle == [dataset_id |-> NULL, row |-> <<>>, job_id |-> NULL]

Init ==
    /\ jobs = {}
    /\ now = 1
    /\ ret = Call("none", <<>>, NoExc, NULL, <<>>)
    /\ again = FALSE
    /\ store = DatasetStore
    /\ horizon = MaxTime
    /\ pc = [p \in Procs |-> "idle"]
    /\ local = [p \in Procs |-> Idle]

Ids(rows) == {j.id : j \in rows}

\* ------------------------------------------- Spec: one call after another
evaluate_dataset(dataset_id) ==
    /\ UNCHANGED <<store, horizon>>
    /\ Cardinality(jobs) < MaxJobs
    /\ now <= horizon
    /\ UNCHANGED <<pc, local>>
    /\ IF CountActive(jobs, dataset_id) > 0
       THEN /\ Returns(Call("evaluate_dataset", <<dataset_id>>, "JobExistsException", NULL, <<>>))
            /\ UNCHANGED <<jobs, now>>
       ELSE LET v == validate_dataset(store[dataset_id]) IN
            IF v.exc # NoExc
            THEN /\ Returns(Call("evaluate_dataset", <<dataset_id>>, v.exc, v.recording, <<>>))
                 /\ UNCHANGED <<jobs, now>>
            ELSE LET id == uuid_generate_v4(Ids(jobs)) IN
                 /\ jobs' = jobs \cup {NewRow(id, dataset_id, now)}
                 /\ now' = now + 1
                 /\ Returns(Call("evaluate_dataset", <<dataset_id>>, NoExc, id, <<>>))

\* a fetch that also claims: the returned job is marked running
get_next_pending_job_Claiming ==
    /\ UNCHANGED <<store, horizon>>
    /\ now <= horizon
    /\ UNCHANGED <<pc, local>>
    /\ IF NextPendingRows(jobs) = {}
       THEN /\ Returns(Call("get_next_pending_job", <<>>, NoExc, NULL, <<>>))
            /\ UNCHANGED <<jobs, now>>
       ELSE \E row \in NextPendingRows(jobs) :
            /\ Returns(Call("get_next_pending_job", <<>>, NoExc, row.id, <<row>>))
            /\ jobs' = UpdateStatus(jobs, row.id, STATUS_RUNNING, NULL, now)
            /\ now' = now + 1

get_next_pending_job ==
    /\ UNCHANGED <<store, horizon>>
    /\ UNCHANGED <<jobs, now, pc, local>>
    /\ IF NextPendingRows(jobs) = {}
       THEN Returns(Call("get_next_pending_job", <<>>, NoExc, NULL, <<>>))
       ELSE \E row \in NextPendingRows(jobs) :
                Returns(Call("get_next_pending_job", <<>>, NoExc, row.id, <<row>>))

get_job(job_id) ==
    /\ UNCHANGED <<store, horizon>>
    /\ UNCHANGED <<jobs, now, pc, local>>
    /\ IF RowsWithId(jobs, job_id) = {}
       THEN Returns(Call("get_job", <<job_id>>, NoExc, NULL, <<>>))
       ELSE \E row \in RowsWithId(jobs, job_id) :
                Returns(Call("get_job", <<job_id>>, NoExc, row.id, <<row>>))

get_jobs_for_dataset(dataset_id) ==
    /\ UNCHANGED <<store, horizon>>
    /\ UNCHANGED <<jobs, now, pc, local>>
    /\ \E s \in DatasetRows(jobs, dataset_id) :
           Returns(Call("get_jobs_for_dataset", <<dataset_id>>, NoExc, NULL, s))

set_job_result(job_id, result) ==
    /\ UNCHANGED <<store, horizon>>
    /\ now <= horizon
    /\ jobs' = UpdateResult(jobs, job_id, result, now)
    /\ now' = now + 1
    /\ Returns(Call("set_job_result", <<job_id, result>>, NoExc, NULL, <<>>))
    /\ UNCHANGED <<pc, local>>

\* set_job_status that follows the lifecycle pending -> running -> done or
\* failed and refuses every other change
set_job_status_Lifecycle(job_id, status, status_msg) ==
    /\ UNCHANGED <<store, horizon>>
    /\ now <= horizon
    /\ UNCHANGED <<pc, local>>
    /\ IF \/ status \notin Statuses
          \/ \E j \in RowsWithId(jobs, job_id) :
                <<j.status, status>> \notin {<<STATUS_PENDING, STATUS_RUNNING>>,
                                            <<STATUS_RUNNING, STATUS_DONE>>,
                                            <<STATUS_RUNNING, STATUS_FAILED>>}
       THEN /\ Returns(Call("set_job_status", <<job_id, status, status_msg>>,
                           "IncorrectJobStatusException", NULL, <<>>))
            /\ UNCHANGED <<jobs, now>>
       ELSE /\ jobs' = UpdateStatus(jobs, job_id, status, status_msg, now)
            /\ now' = now + 1
            /\ Returns(Call("set_job_status", <<job_id, status, status_msg>>, NoExc, NULL, <<>>))

\* set_job_status without the test of `status`
set_job_status_Unchecked(job_id, status, status_msg) ==
    /\ UNCHANGED <<store, horizon>>
    /\ now <= horizon
    /\ UNCHANGED <<pc, local>>
    /\ jobs' = UpdateStatus(jobs, job_id, status, status_msg, now)
    /\ now' = now + 1
    /\ Returns(Call("set_job_status", <<job_id, status, status_msg>>, NoExc, NULL, <<>>))

set_job_status(job_id, status, status_msg) ==
    /\ UNCHANGED <<store, horizon>>
    /\ now <= horizon
    /\ UNCHANGED <<pc, local>>
    /\ IF status \notin Statuses
       THEN /\ Returns(Call("set_job_status", <<job_id, status, status_msg>>,
                           "IncorrectJobStatusException", NULL, <<>>))
            /\ UNCHANGED <<jobs, now>>
       ELSE /\ jobs' = UpdateStatus(jobs, job_id, status, status_msg, now)
            /\ now' = now + 1
            /\ Returns(Call("set_job_status", <<job_id, status, status_msg>>, NoExc, NULL, <<>>))

\* The owner of a dataset edits it; the dataset store is not part of this
\* module, and db.dataset.get returns the content of the moment.  Here dB
\* gets a recording without low-level data, so a dataset that was complete
\* when its job was created may be incomplete later.
dataset_edited ==
    /\ store["dB"] = DatasetStore["dB"]
    /\ store' = [store EXCEPT !["dB"] = DatasetStore["dD"]]
    /\ UNCHANGED <<jobs, now, ret, again, horizon, pc, local>>

Next ==
    \/ \E d \in DatasetIds : evaluate_dataset(d)
    \/ get_next_pending_job
    \/ \E j \in JobIds : get_job(j)
    \/ \E d \in DatasetIds : get_jobs_for_dataset(d)
    \/ \E j \in JobIds, r \in ResultInputs : set_job_result(j, r)
    \/ \E j \in JobIds, s \in StatusInputs, m \in MsgInputs : set_job_status(j, s, m)
    \/ dataset_edited

Spec == Init /\ [][Next]_vars

\* --------------------------------- SpecC: callers interleave at statements
\* Every caller is either submitting a dataset or working on a job the way
\* the queue is meant to be used: fetch the next pending job, mark it
\* running, then store a result and mark it done, or mark it failed.

\* identifiers of rows inserted by transactions that are still open
InFlightIds == {local[p].row[1].id : p \in {q \in Procs : local[q].row # <<>>}}

\* callers inside evaluate_dataset
Submitting == {p \in Procs : pc[p] \in {"validate", "insert", "commit"}}

\* the dataset is fetched and validated before the count query is looked at
SubmitCheck_ValidateFirst(p, dataset_id) ==
    /\ UNCHANGED <<store, horizon>>
    /\ pc[p] = "idle"
    /\ Cardinality(jobs) + Cardinality(Submitting) < MaxJobs
    /\ UNCHANGED <<jobs, now>>
    /\ LET v == validate_dataset(store[dataset_id]) IN
       IF v.exc # NoExc
       THEN /\ Returns(Call("evaluate_dataset", <<dataset_id>>, v.exc, v.recording, <<>>))
            /\ UNCHANGED <<pc, local>>
       ELSE IF CountActive(jobs, dataset_id) > 0
       THEN /\ Returns(Call("evaluate_dataset", <<dataset_id>>, "JobExistsException", NULL, <<>>))
            /\ UNCHANGED <<pc, local>>
       ELSE /\ pc' = [pc EXCEPT ![p] = "validate"]
            /\ local' = [local EXCEPT ![p].dataset_id = dataset_id]
            /\ UNCHANGED <<ret, again>>

\* `with db.engine.begin()` and the count query: the transaction sees the
\* committed rows only
SubmitCheck(p, dataset_id) ==
    /\ UNCHANGED <<store, horizon>>
    /\ pc[p] = "idle"
    /\ Cardinality(jobs) + Cardinality(Submitting) < MaxJobs
    /\ UNCHANGED <<jobs, now>>
    /\ IF CountActive(jobs, dataset_id) > 0
       THEN /\ Returns(Call("evaluate_dataset", <<dataset_id>>, "JobExistsException", NULL, <<>>))
            /\ UNCHANGED <<pc, local>>
       ELSE /\ pc' = [pc EXCEPT ![p] = "validate"]
            /\ local' = [local EXCEPT ![p].dataset_id = dataset_id]
            /\ UNCHANGED <<ret, again>>

\* validate_dataset(db.dataset.get(dataset_id)); an exception leaves the
\* with block and rolls the (still empty) transaction back
SubmitValidate(p) ==
    /\ UNCHANGED <<store, horizon>>
    /\ pc[p] = "validate"
    /\ UNCHANGED <<jobs, now>>
    /\ LET v == validate_dataset(store[local[p].dataset_id]) IN
       IF v.exc # NoExc
       THEN /\ Returns(Call("evaluate_dataset", <<local[p].dataset_id>>, v.exc, v.recording, <<>>))
            /\ pc' = [pc EXCEPT ![p] = "idle"]
            /\ local' = [local EXCEPT ![p] = Idle]
       ELSE /\ pc' = [pc EXCEPT ![p] = "insert"]
            /\ UNCHANGED <<ret, again, local>>

\* _create_job: the row exists inside the transaction only
SubmitInsert(p) ==
    /\ UNCHANGED <<store, horizon>>
    /\ pc[p] = "insert"
    /\ now <= horizon
    /\ LET id == uuid_generate_v4(Ids(jobs) \cup InFlightIds) IN
          local' = [local EXCEPT ![p].row = <<NewRow(id, local[p].dataset_id, now)>>]
    /\ pc' = [pc EXCEPT ![p] = "commit"]
    /\ UNCHANGED <<jobs, now, ret, again>>

\* a commit that runs the count query again and gives up on a duplicate
SubmitCommit_Recheck(p) ==
    /\ UNCHANGED <<store, horizon>>
    /\ pc[p] = "commit"
    /\ pc' = [pc EXCEPT ![p] = "idle"]
    /\ local' = [local EXCEPT ![p] = Idle]
    /\ IF CountActive(jobs, local[p].dataset_id) > 0
       THEN /\ Returns(Call("evaluate_dataset", <<local[p].dataset_id>>, "JobExistsException", NULL, <<>>))
            /\ UNCHANGED <<jobs, now>>
       ELSE /\ jobs' = jobs \cup {local[p].row[1]}
            /\ now' = now + 1
            /\ Returns(Call("evaluate_dataset", <<local[p].dataset_id>>, NoExc, local[p].row[1].id, <<>>))

\* leaving the with block commits; the caller gets the id afterwards
SubmitCommit(p) ==
    /\ UNCHANGED <<store, horizon>>
    /\ pc[p] = "commit"
    /\ jobs' = jobs \cup {local[p].row[1]}
    /\ now' = now + 1
    /\ Returns(Call("evaluate_dataset", <<local[p].dataset_id>>, NoExc, local[p].row[1].id, <<>>))
    /\ pc' = [pc EXCEPT ![p] = "idle"]
    /\ local' = [local EXCEPT ![p] = Idle]

\* a worker calls get_next_pending_job and keeps the id of what it got
WorkerFetch(p) ==
    /\ UNCHANGED <<store, horizon>>
    /\ pc[p] = "idle"
    /\ UNCHANGED <<jobs, now>>
    /\ IF NextPendingRows(jobs) = {}
       THEN /\ Returns(Call("get_next_pending_job", <<>>, NoExc, NULL, <<>>))
            /\ UNCHANGED <<pc, local>>
       ELSE \E row \in NextPendingRows(jobs) :
            /\ Returns(Call("get_next_pending_job", <<>>, NoExc, row.id, <<row>>))
            /\ pc' = [pc EXCEPT ![p] = "fetched"]
            /\ local' = [local EXCEPT ![p].job_id = row.id]

\* a claim that succeeds only while the job is still pending
WorkerRunning_Exclusive(p) ==
    /\ UNCHANGED <<store, horizon>>
    /\ pc[p] = "fetched"
    /\ now <= horizon
    /\ IF \E j \in RowsWithId(jobs, local[p].job_id) : j.status = STATUS_PENDING
       THEN /\ jobs' = UpdateStatus(jobs, local[p].job_id, STATUS_RUNNING, NULL, now)
            /\ now' = now + 1
            /\ pc' = [pc EXCEPT ![p] = "running"]
            /\ Returns(Call("set_job_status", <<local[p].job_id, STATUS_RUNNING, NULL>>, NoExc, NULL, <<>>))
            /\ UNCHANGED local
       ELSE /\ UNCHANGED <<jobs, now>>
            /\ pc' = [pc EXCEPT ![p] = "idle"]
            /\ local' = [local EXCEPT ![p] = Idle]
            /\ Returns(Call("set_job_status", <<local[p].job_id, STATUS_RUNNING, NULL>>, "AlreadyClaimed", NULL, <<>>))

\* set_job_status(job["id"], STATUS_RUNNING)
WorkerRunning(p) ==
    /\ UNCHANGED <<store, horizon>>
    /\ pc[p] = "fetched"
    /\ now <= horizon
    /\ jobs' = UpdateStatus(jobs, local[p].job_id, STATUS_RUNNING, NULL, now)
    /\ now' = now + 1
    /\ pc' = [pc EXCEPT ![p] = "running"]
    /\ Returns(Call("set_job_status", <<local[p].job_id, STATUS_RUNNING, NULL>>, NoExc, NULL, <<>>))
    /\ UNCHANGED local

\* set_job_result(job["id"], result)
WorkerResult(p, result) ==
    /\ UNCHANGED <<store, horizon>>
    /\ pc[p] = "running"
    /\ now <= horizon
    /\ jobs' = UpdateResult(jobs, local[p].job_id, result, now)
    /\ now' = now + 1
    /\ pc' = [pc EXCEPT ![p] = "evaluated"]
    /\ Returns(Call("set_job_result", <<local[p].job_id, result>>, NoExc, NULL, <<>>))
    /\ UNCHANGED local

\* set_job_status(job["id"], STATUS_DONE)
WorkerDone(p) ==
    /\ UNCHANGED <<store, horizon>>
    /\ pc[p] = "evaluated"
    /\ now <= horizon
    /\ jobs' = UpdateStatus(jobs, local[p].job_id, STATUS_DONE, NULL, now)
    /\ now' = now + 1
    /\ pc' = [pc EXCEPT ![p] = "idle"]
    /\ local' = [local EXCEPT ![p] = Idle]
    /\ Returns(Call("set_job_status", <<local[p].job_id, STATUS_DONE, NULL>>, NoExc, NULL, <<>>))

\* set_job_status(job["id"], STATUS_FAILED, status_msg)
WorkerFailed(p, status_msg) ==
    /\ UNCHANGED <<store, horizon>>
    /\ pc[p] = "running"
    /\ now <= horizon
    /\ jobs' = UpdateStatus(jobs, local[p].job_id, STATUS_FAILED, status_msg, now)
    /\ now' = now + 1
    /\ pc' = [pc EXCEPT ![p] = "idle"]
    /\ local' = [local EXCEPT ![p] = Idle]
    /\ Returns(Call("set_job_status", <<local[p].job_id, STATUS_FAILED, status_msg>>, NoExc, NULL, <<>>))

NextC ==
    \/ \E p \in Procs, d \in DatasetIds : SubmitCheck(p, d)
    \/ \E p \in Procs : SubmitValidate(p)
    \/ \E p \in Procs : SubmitInsert(p)
    \/ \E p \in Procs : SubmitCommit(p)
    \/ \E p \in Procs : WorkerFetch(p)
    \/ \E p \in Procs : WorkerRunning(p)
    \/ \E p \in Procs, r \in ResultInputs : WorkerResult(p, r)
    \/ \E p \in Procs : WorkerDone(p)
    \/ \E p \in Procs : WorkerFailed(p, "m")
    \/ \E j \in JobIds : get_job(j)
    \/ \E d \in DatasetIds : get_jobs_for_dataset(d)
    \/ dataset_edited

SpecC == Init /\ [][NextC]_vars

\* ------------------------------ SpecL: a submitter and one fair worker
Submitter == "p1"
Worker == "p2"

\* Every job gets at most one commit and three writes of the worker, so with
\* this horizon the clock never stops a write.
InitL ==
    /\ jobs = {}
    /\ now = 1
    /\ ret = Call("none", <<>>, NoExc, NULL, <<>>)
    /\ again = FALSE
    /\ store = DatasetStore
    /\ horizon = 4 * MaxJobs
    /\ pc = [p \in Procs |-> "idle"]
    /\ local = [p \in Procs |-> Idle]

\* the worker's loop: fetch, mark running, then result and done, or failed
WorkerStep ==
    \/ WorkerFetch(Worker)
    \/ WorkerRunning(Worker)
    \/ WorkerResult(Worker, "r1")
    \/ WorkerDone(Worker)
    \/ WorkerFailed(Worker, "m")

NextL ==
    \/ \E d \in DatasetIds : SubmitCheck(Submitter, d)
    \/ SubmitValidate(Submitter)
    \/ SubmitInsert(Submitter)
    \/ SubmitCommit(Submitter)
    \/ WorkerStep

SpecL == InitL /\ [][NextL]_vars /\ WF_vars(WorkerStep)

\* ================================================================ claims
RowsOfDataset(rows, d) == {j \in rows : j.dataset_id = d}

\* what the validator is documented to reject, stated on the data
Incomplete(d) ==
    \/ ~store[d].schema_ok
    \/ \E c \in 1..Len(store[d].classes) :
          \E r \in 1..Len(store[d].classes[c]) :
              LowlevelCount[store[d].classes[c][r]] = 0

\* C1: a dataset that validates and has no job is submitted twice in a row:
\* the first call returns the id of a new job, the second raises
\* JobExistsException and changes nothing, and the dataset is left with one
\* active job, the one the first call returned.
C1_SubmitTwice ==
    [][\A d \in DatasetIds : evaluate_dataset(d) =>
          /\ (~Incomplete(d) /\ RowsOfDataset(jobs, d) = {}) =>
                /\ ret'.exc = NoExc
                /\ ret'.val \notin Ids(jobs)
                /\ Cardinality(RowsOfDataset(jobs', d)) = 1
          /\ (ret.op = "evaluate_dataset" /\ ret.arg = <<d>> /\ ret.exc = NoExc) =>
                /\ ret'.exc = "JobExistsException"
                /\ jobs' = jobs
                /\ {j.id : j \in {k \in RowsOfDataset(jobs', d) : k.status \in ActiveStatuses}}
                       = {ret.val}
      ]_vars

C1_Witness ==
    /\ ret.op = "evaluate_dataset"
    /\ ret.exc = "JobExistsException"
    /\ again
    /\ Cardinality(RowsOfDataset(jobs, ret.arg[1])) = 1
    /\ \E j \in jobs : j.dataset_id = ret.arg[1] /\ j.created = now - 1

\* C2: in every reachable state every dataset has at most one job whose
\* status is pending or running.
C2_OneActivePerDataset ==
    \A d \in DatasetIds :
        Cardinality({j \in jobs : j.dataset_id = d /\ j.status \in {"pending", "running"}}) <= 1

\* C3: set_job_status with a status outside the four recognized values
\* raises IncorrectJobStatusException and leaves the table and the clock as
\* they were.
C3_InvalidStatus ==
    [][\A j \in JobIds, s \in StatusInputs \ {"pending", "running", "done", "failed"},
          m \in MsgInputs :
          set_job_status(j, s, m) =>
              /\ ret'.exc = "IncorrectJobStatusException"
              /\ jobs' = jobs
              /\ now' = now
      ]_vars

C3_Witness ==
    /\ ret.op = "set_job_status"
    /\ ret.exc = "IncorrectJobStatusException"
    /\ \E j \in jobs : j.id = ret.arg[1] /\ j.status_msg # ret.arg[3]

\* C4: get_next_pending_job returns a pending job whose created is the
\* smallest among all pending jobs, and returns None exactly when no job is
\* pending.
C4_NextPending ==
    ret.op = "get_next_pending_job" =>
        /\ ret.exc = NoExc
        /\ (ret.rows = <<>>) <=> (\A j \in jobs : j.status # "pending")
        /\ ret.rows # <<>> =>
              /\ Len(ret.rows) = 1
              /\ ret.rows[1] \in jobs
              /\ ret.rows[1].status = "pending"
              /\ \A j \in jobs : j.status = "pending" => ret.rows[1].created <= j.created

C4_Witness ==
    /\ ret.op = "get_next_pending_job"
    /\ ret.rows # <<>>
    /\ \E j \in jobs : /\ j.status = "pending"
                       /\ j.dataset_id # ret.rows[1].dataset_id
                       /\ j.created > ret.rows[1].created
    /\ \E j \in jobs : j.status # "pending" /\ j.created < ret.rows[1].created

\* C5: when validation runs in evaluate_dataset (the dataset has no pending
\* or running job) and rejects the dataset, evaluate_dataset raises the
\* validation error and the table is exactly what it was.
C5_ValidationFails ==
    [][\A d \in DatasetIds :
          (/\ evaluate_dataset(d)
           /\ Incomplete(d)
           /\ \A j \in RowsOfDataset(jobs, d) : j.status \in {"done", "failed"}) =>
              /\ ret'.exc \in {"ValidationError", "Exception"}
              /\ ret'.exc = "Exception" => LowlevelCount[ret'.val] = 0
              /\ jobs' = jobs
      ]_vars

C5_Witness ==
    /\ ret.op = "evaluate_dataset"
    /\ ret.exc = "Exception"
    /\ ret.val = "r4"
    /\ RowsOfDataset(jobs, ret.arg[1]) # {}
    /\ \E j \in jobs : j.status = "pending"

\* C6: a successful evaluate_dataset(d) adds exactly one row: pending, for
\* d, without status_msg and result, with an id no row had before; that id
\* is returned and every other row is unchanged.
C6_SubmitAddsOne ==
    [][\A d \in DatasetIds :
          (evaluate_dataset(d) /\ ret'.exc = NoExc) =>
              /\ jobs \subseteq jobs'
              /\ Cardinality(jobs' \ jobs) = 1
              /\ \A j \in jobs' \ jobs :
                    /\ j.dataset_id = d
                    /\ j.status = "pending"
                    /\ j.status_msg = NULL
                    /\ j.result = NULL
                    /\ j.id \notin Ids(jobs)
                    /\ j.id = ret'.val
      ]_vars

C6_Witness ==
    /\ ret.op = "evaluate_dataset"
    /\ ret.exc = NoExc
    /\ Cardinality(jobs) >= 2
    /\ \E j \in jobs : j.id = ret.val /\ j.created = now - 1
    /\ \E j \in jobs : j.id # ret.val /\ j.dataset_id = ret.arg[1]

\* a step that is a call of the module: the dataset store is left alone
CallStep == store' = store

\* C7: a job shows what was last written to it.  A successful
\* set_job_status stores its status and status_msg, set_job_result stores
\* its result, each stamps `updated` with the time of the call, later than
\* `created` and than the previous `updated`; every other call leaves the
\* job as it is; get_job returns the row as stored.
C7_LastWriteWins ==
    [][\A j \in jobs : \E k \in jobs' :
          /\ k.id = j.id
          /\ CASE /\ CallStep
                  /\ ret'.op = "set_job_status" /\ ret'.exc = NoExc
                  /\ ret'.arg[1] = j.id ->
                    /\ k.status = ret'.arg[2]
                    /\ k.status_msg = ret'.arg[3]
                    /\ k.result = j.result
                    /\ k.updated = now
                    /\ k.updated > j.updated
                    /\ k.updated > k.created
               [] CallStep /\ ret'.op = "set_job_result" /\ ret'.arg[1] = j.id ->
                    /\ k.result = ret'.arg[2]
                    /\ k.status = j.status
                    /\ k.status_msg = j.status_msg
                    /\ k.updated = now
                    /\ k.updated > j.updated
                    /\ k.updated > k.created
               [] ret'.op = "get_job" /\ ret'.arg[1] = j.id ->
                    /\ k = j
                    /\ ret'.rows = <<j>>
               [] OTHER -> k = j
      ]_vars

C7_Witness ==
    /\ ret.op = "get_job"
    /\ ret.rows # <<>>
    /\ ret.rows[1].status = "done"
    /\ ret.rows[1].result # NULL
    /\ ret.rows[1].updated >= ret.rows[1].created + 3
    /\ ret.rows[1].updated = now - 1

\* C8: set_job_result(J, r) called twice in a row with the same r: after
\* the second call result is still r, status and status_msg are what they
\* were, and each call has stamped `updated` with its own time.
C8_ResultTwice ==
    [][\A id \in JobIds, r \in ResultInputs :
          (/\ set_job_result(id, r)
           /\ ret.op = "set_job_result"
           /\ ret.arg = <<id, r>>) =>
              \A j \in RowsWithId(jobs, id) : \E k \in jobs' :
                  /\ k.id = id
                  /\ j.result = r
                  /\ j.updated = now - 1
                  /\ k.result = r
                  /\ k.status = j.status
                  /\ k.status_msg = j.status_msg
                  /\ k.updated = now
      ]_vars

C8_Witness ==
    /\ ret.op = "set_job_result"
    /\ again
    /\ \E j \in jobs : /\ j.id = ret.arg[1]
                       /\ j.result = ret.arg[2]
                       /\ j.updated = now - 1
                       /\ j.status = "failed"
                       /\ j.status_msg = "m"

\* C9: whatever the interleaving of the submissions, get_jobs_for_dataset(d)
\* returns exactly the jobs of d, each once, oldest first.
C9_ListOrdered ==
    [][\A d \in DatasetIds : get_jobs_for_dataset(d) =>
          /\ Len(ret'.rows) = Cardinality({j \in jobs : j.dataset_id = d})
          /\ {ret'.rows[i] : i \in 1..Len(ret'.rows)} = {j \in jobs : j.dataset_id = d}
          /\ \A i \in 1..(Len(ret'.rows) - 1) :
                ret'.rows[i].created <= ret'.rows[i + 1].created
      ]_vars

C9_Witness ==
    /\ ret.op = "get_jobs_for_dataset"
    /\ Len(ret.rows) = 2
    /\ ret.rows[1].status = "pending"
    /\ ret.rows[2].status = "pending"
    /\ \E j \in jobs : /\ j.dataset_id # ret.arg[1]
                       /\ ret.rows[1].created < j.created
                       /\ j.created < ret.rows[2].created

\* C10: no step removes a job or changes its id, dataset_id or created.
C10_Immutable ==
    [][/\ Ids(jobs) \subseteq Ids(jobs')
       /\ \A j \in jobs :
             /\ Cardinality(RowsWithId(jobs', j.id)) = 1
             /\ \A k \in RowsWithId(jobs', j.id) :
                   k.dataset_id = j.dataset_id /\ k.created = j.created
      ]_vars

C10_Witness ==
    /\ Cardinality(jobs) >= 2
    /\ \E j \in jobs : /\ j.status = "failed"
                       /\ j.result # NULL
                       /\ j.updated >= j.created + 2

\* C11: the count query and the INSERT of evaluate_dataset are separate
\* steps.  A caller that has passed the count query inserts and commits a
\* pending row and gets its id back whatever has been committed in the
\* meantime, so two callers that both passed it for the same dataset leave
\* two pending jobs for it.
C11_CheckThenInsert ==
    [][\A p \in Procs :
          /\ (pc[p] = "insert" /\ pc'[p] # "insert") => pc'[p] = "commit"
          /\ (pc[p] = "commit" /\ pc'[p] # "commit") =>
                /\ jobs' = jobs \cup {local[p].row[1]}
                /\ local[p].row[1].status = "pending"
                /\ local[p].row[1].dataset_id = local[p].dataset_id
                /\ ret'.op = "evaluate_dataset"
                /\ ret'.exc = NoExc
                /\ ret'.val = local[p].row[1].id
      ]_vars

C11_Witness ==
    /\ \A p \in Procs : pc[p] = "idle"
    /\ ret.op = "evaluate_dataset"
    /\ ret.exc = NoExc
    /\ again
    /\ \E j, k \in jobs :
          /\ j.id # k.id
          /\ j.dataset_id = ret.arg[1]
          /\ k.dataset_id = ret.arg[1]
          /\ j.status = "pending"
          /\ k.status = "pending"
          /\ j.created = k.created
          /\ k.id = ret.val

\* C12: fetching is not claiming.  A worker that has fetched a job marks it
\* running without error whatever the status of the job is by then, so two
\* workers that fetched the same pending job both go on to process it.
C12_ClaimNotExclusive ==
    [][\A p \in Procs :
          (pc[p] = "fetched" /\ pc'[p] # "fetched") =>
              /\ pc'[p] = "running"
              /\ ret'.op = "set_job_status"
              /\ ret'.exc = NoExc
              /\ \A j \in RowsWithId(jobs', local[p].job_id) : j.status = "running"
      ]_vars

C12_Witness ==
    /\ \A p \in Procs : pc[p] \in {"running", "evaluated"}
    /\ \A p, q \in Procs : local[p].job_id = local[q].job_id
    /\ \E j \in jobs : j.id = local["p1"].job_id /\ j.status = "running"

\* C13: get_next_pending_job, get_job and get_jobs_for_dataset change no
\* row, no timestamp and nothing else of the store; the job returned by
\* get_next_pending_job is still pending afterwards, and calling it again
\* right away returns the same job.
C13_ReadsObserveOnly ==
    [][/\ (\/ get_next_pending_job
           \/ \E id \in JobIds : get_job(id)
           \/ \E d \in DatasetIds : get_jobs_for_dataset(d)) =>
              /\ jobs' = jobs
              /\ now' = now
              /\ store' = store
       /\ (get_next_pending_job /\ ret'.rows # <<>>) =>
              \E j \in jobs' : j = ret'.rows[1] /\ j.status = "pending"
       /\ (get_next_pending_job /\ ret.op = "get_next_pending_job") =>
              /\ ret'.val = ret.val
              /\ ret'.rows = ret.rows
      ]_vars

C13_Witness ==
    /\ ret.op = "get_next_pending_job"
    /\ again
    /\ ret.rows # <<>>
    /\ \E j \in jobs : j.id = ret.val /\ j.status = "pending"
    /\ \E j \in jobs : j.id # ret.val /\ j.status = "pending"

\* C14: evaluate_dataset looks at the count query first.  When the dataset
\* has a pending or running job the call raises JobExistsException, also
\* for a dataset that validation would reject, and the caller never gets to
\* the step that fetches and validates the dataset; a validation error is
\* only ever raised from that step.
C14_CheckBeforeValidate ==
    [][\A p \in Procs :
          /\ \A d \in DatasetIds :
                (/\ SubmitCheck(p, d)
                 /\ \E j \in jobs : j.dataset_id = d /\ j.status \in {"pending", "running"}) =>
                    /\ ret'.op = "evaluate_dataset"
                    /\ ret'.arg = <<d>>
                    /\ ret'.exc = "JobExistsException"
                    /\ pc'[p] = "idle"
                    /\ jobs' = jobs
          /\ pc'[p] = "validate" => pc[p] \in {"idle", "validate"}
          /\ pc'[p] = "insert" => pc[p] \in {"validate", "insert"}
          /\ pc'[p] = "commit" => pc[p] \in {"insert", "commit"}
       /\ (ret' # ret /\ ret'.exc \in {"ValidationError", "Exception"}) =>
             \E q \in Procs : pc[q] = "validate" /\ pc'[q] = "idle"
      ]_vars

C14_Witness ==
    /\ ret.op = "evaluate_dataset"
    /\ ret.exc = "JobExistsException"
    /\ Incomplete(ret.arg[1])
    /\ \E j \in jobs : j.dataset_id = ret.arg[1] /\ j.status = "running"

\* the (status, status_msg) pairs that calls pass in SpecC, and the pair a
\* new row starts with
CallPairs ==
    {<<"pending", NULL>>, <<"running", NULL>>, <<"done", NULL>>, <<"failed", "m">>}

\* C15: a successful set_job_status writes status and status_msg together:
\* afterwards the row holds exactly the pair of that call, a message stored
\* before is gone when the call passes none, and with several workers
\* writing to the same job no row ever holds the status of one call with
\* the message of another.
C15_StatusWithMessage ==
    [][/\ \A p \in Procs :
             (WorkerRunning(p) \/ WorkerDone(p) \/ WorkerFailed(p, "m")) =>
                 \A j \in RowsWithId(jobs', local[p].job_id) :
                     /\ ret'.op = "set_job_status"
                     /\ j.status = ret'.arg[2]
                     /\ j.status_msg = ret'.arg[3]
       /\ \A j \in jobs' : <<j.status, j.status_msg>> \in CallPairs
      ]_vars

\* one job; a worker marked it running and failed with a message, then the
\* other worker, which had fetched it while it was pending, marked it running
C15_Witness ==
    /\ pc["p1"] = "idle"
    /\ pc["p2"] = "running"
    /\ Cardinality(jobs) = 1
    /\ \A q \in Procs : pc[q] = "idle" \/ pc[q] = "running"
    /\ \E j \in jobs : /\ j.id = local["p2"].job_id
                       /\ j.status = "running"
                       /\ j.status_msg = NULL
                       /\ j.result = NULL
                       /\ j.updated = j.created + 3
                       /\ now = j.updated + 1

\* C16: set_job_result and set_job_status write different columns.
\* set_job_result succeeds whatever the status of the job is and leaves
\* status and status_msg alone, set_job_status leaves result alone, and
\* neither touches any other row.
C16_DisjointFields ==
    [][/\ (ret'.op = "set_job_result" /\ jobs' # jobs) =>
             /\ ret'.exc = NoExc
             /\ Ids(jobs') = Ids(jobs)
             /\ \A j \in jobs : \E k \in jobs' :
                   /\ k.id = j.id
                   /\ k.status = j.status
                   /\ k.status_msg = j.status_msg
                   /\ j.id = ret'.arg[1] => k.result = ret'.arg[2]
                   /\ j.id # ret'.arg[1] => k = j
       /\ (ret'.op = "set_job_status" /\ jobs' # jobs) =>
             /\ Ids(jobs') = Ids(jobs)
             /\ \A j \in jobs : \E k \in jobs' :
                   /\ k.id = j.id
                   /\ k.result = j.result
                   /\ j.id # ret'.arg[1] => k = j
       /\ \A j \in jobs : \A r \in ResultInputs :
             now <= horizon => ENABLED set_job_result(j.id, r)
      ]_vars

C16_Witness ==
    /\ ret.op = "set_job_result"
    /\ Cardinality(jobs) >= 2
    /\ \E j \in jobs : /\ j.id = ret.arg[1]
                       /\ j.result = ret.arg[2]
                       /\ j.status = "failed"
                       /\ j.status_msg = "m"
                       /\ j.updated = now - 1

\* C17: set_job_status does not look at the current status.  For every
\* job, whatever its status, and every recognized status, the call is
\* possible, raises nothing and leaves the job in the status passed; this
\* includes done and failed back to pending or running, and the status the
\* job already has.
C17_AnyTransition ==
    \A j \in jobs : \A s2 \in Statuses :
        now <= horizon =>
            ENABLED (/\ set_job_status(j.id, s2, NULL)
                     /\ ret'.exc = NoExc
                     /\ \A k \in RowsWithId(jobs', j.id) : k.status = s2)

C17_Witness ==
    /\ now <= horizon
    /\ ret.op = "set_job_status"
    /\ ret.exc = NoExc
    /\ again
    /\ ret.arg[2] = "done"
    /\ \E j \in jobs : j.id = ret.arg[1] /\ j.status = "done" /\ j.updated = now - 1

\* C18: only pending and running jobs count as duplicates.  When every job
\* of a complete dataset is done or failed, evaluate_dataset succeeds and
\* adds a pending job next to them, and get_jobs_for_dataset lists the old
\* jobs and the new one.
C18_ResubmitAfterTerminal ==
    [][\A d \in DatasetIds :
          (/\ evaluate_dataset(d)
           /\ ~Incomplete(d)
           /\ RowsOfDataset(jobs, d) # {}
           /\ \A j \in RowsOfDataset(jobs, d) : j.status \in {"done", "failed"}) =>
              /\ ret'.exc = NoExc
              /\ RowsOfDataset(jobs, d) \subseteq RowsOfDataset(jobs', d)
              /\ Cardinality(RowsOfDataset(jobs', d)) = Cardinality(RowsOfDataset(jobs, d)) + 1
              /\ \A k \in RowsOfDataset(jobs', d) \ RowsOfDataset(jobs, d) :
                    k.status = "pending" /\ k.id = ret'.val
              /\ \A s \in DatasetRows(jobs', d) :
                    /\ Len(s) = Cardinality(RowsOfDataset(jobs, d)) + 1
                    /\ {s[i] : i \in 1..Len(s)} = RowsOfDataset(jobs', d)
                    /\ s[Len(s)].id = ret'.val
      ]_vars

C18_Witness ==
    /\ ret.op = "evaluate_dataset"
    /\ ret.exc = NoExc
    /\ \E j, k \in jobs :
          /\ j.dataset_id = ret.arg[1]
          /\ k.dataset_id = ret.arg[1]
          /\ j.status = "failed"
          /\ k.id = ret.val
          /\ k.status = "pending"
          /\ k.created = now - 1
          /\ j.created < k.created

\* C19: set_job_status with a recognized status, and set_job_result, given
\* an id that no row has, return without an exception and leave the table
\* as it is: no row is added and none is changed.
C19_UnknownJob ==
    [][(/\ ret'.op \in {"set_job_status", "set_job_result"}
        /\ ret'.arg[1] \notin Ids(jobs)
        /\ ret'.op = "set_job_status" => ret'.arg[2] \in {"pending", "running", "done", "failed"}) =>
           /\ ret'.exc = NoExc
           /\ jobs' = jobs
      ]_vars

C19_Witness ==
    /\ ret.op = "set_job_result"
    /\ ret.exc = NoExc
    /\ ret.arg[1] \notin Ids(jobs)
    /\ jobs # {}
    /\ \A j \in jobs : j.updated < now - 1

\* C20: with one worker that keeps fetching the next pending job, marks it
\* running and then done or failed, and that is scheduled fairly, every job
\* that is created is done or failed at some later time, also while jobs
\* for other datasets are being submitted; and the worker is never handed a
\* job while a pending job with an earlier created exists.
C20_NoStarvation ==
    /\ \A id \in JobIds :
          (id \in Ids(jobs)) ~>
              (\E j \in jobs : j.id = id /\ j.status \in {"done", "failed"})
    /\ [][(pc[Worker] = "idle" /\ pc'[Worker] = "fetched") =>
             \E j \in jobs :
                 /\ j.id = local'[Worker].job_id
                 /\ j.status = "pending"
                 /\ \A k \in jobs : k.status = "pending" => j.created <= k.created
         ]_vars

C20_Witness ==
    /\ pc[Worker] = "idle"
    /\ Cardinality(jobs) >= 3
    /\ \A j \in jobs : j.status \in {"done", "failed"}
    /\ \E j, k \in jobs : j.dataset_id # k.dataset_id
    /\ \E j, k \in jobs : j.created < k.created /\ k.created < j.updated

====
